---- MODULE Spec2Model ----
(***************************************************************************)
(* addcopyfighandler 3.1.0 (src/src/addcopyfighandler.py): the module-load *)
(* dispatch on OS and backend, the plt.figure wrapper newfig, the          *)
(* key-press listener clipboard_handler and the three copyfig variants     *)
(* (win32clipboard, Qt, GTK3), together with the parts of matplotlib.pyplot*)
(* and of the OS clipboard they read and write.                            *)
(***************************************************************************)
EXTENDS Integers, Sequences, FiniteSets, TLC

\* ------------------------------------------------------------------ bounds
MaxFigs == 2          \* figure numbers are 1..MaxFigs
MaxConnects == 4      \* clipboard_handler callbacks connected, over all open canvases

\* --------------------------------------------------------------- constants
BmpFileHeaderLen == 14   \* output.getvalue()[14:]

FigNums == 1..MaxFigs
None == 0                \* fig=None

VARIABLES
  pillow,           \* environment: "from PIL import Image" succeeds
  ostype,           \* module global ostype ("unset" before the module body runs)
  backend,          \* module global backend (<<>> until the linux branch assigns it)
  loaded,           \* "unloaded", "installed", or the exception the module body raised
  variant,          \* which copyfig the module body defined: "none","windows","qt","gtk"
  pltFigure,        \* what plt.figure is bound to: "oldfig" or "newfig"
  figs,             \* open figures, in activation order (last = plt.gcf())
  title,            \* window title of each figure number
  listeners,        \* clipboard_handler callbacks connected to each figure's canvas
  clipOpen,         \* this process holds the OS clipboard open
  clip,             \* clipboard content: [format_id, data]
  pc,               \* position of the running copyfig call, "idle" when none
  fig,              \* copyfig local fig (None = 0)
  requested,        \* the format argument / keyword the caller passed ("None" if absent)
  rcformat,         \* plt.rcParams['savefig.format'] as copyfig read it ("unread" if it did not)
  format,           \* copyfig local format after normalisation (windows)
  fig_window_text,  \* copyfig local fig_window_text
  saved,            \* what fig.savefig was invoked with: [fig, format], or NotSaved
  err,              \* exception propagating out of copyfig ("none" if none)
  key,              \* event.key of the key_press_event being dispatched
  pending           \* callbacks the dispatcher has still to invoke for that event

vars == <<pillow, ostype, backend, loaded, variant, pltFigure, figs, title,
          listeners, clipOpen, clip, pc, fig, requested, rcformat,
          format, fig_window_text, saved, err, key, pending>>

envVars == <<pillow, ostype, backend, loaded, variant, pltFigure>>
figVars == <<figs, title, listeners>>
clipVars == <<clipOpen, clip>>
callVars == <<pc, fig, requested, rcformat, format, fig_window_text, saved, err>>
evVars == <<key, pending>>

\* ------------------------------------------------------------ pure helpers

\* str.lower() on the strings the model uses
Lower(s) ==
  CASE s = "Windows" -> "windows"
    [] s = "Linux" -> "linux"
    [] s = "Darwin" -> "darwin"
    [] s = "JPG" -> "jpg"
    [] s = "SVG" -> "svg"
    [] OTHER -> s

\* needle in hay, for sequences of characters
Contains(hay, needle) ==
  \E i \in 1..(Len(hay) - Len(needle) + 1) :
     SubSeq(hay, i, i + Len(needle) - 1) = needle

Qt == <<"Q", "t">>
GTK3Agg == <<"G", "T", "K", "3", "A", "g", "g">>
Qt5Agg == <<"Q", "t", "5", "A", "g", "g">>
TkAgg == <<"T", "k", "A", "g", "g">>
GTK4Agg == <<"G", "T", "K", "4", "A", "g", "g">>

\* values platform.system() and plt.get_backend() can return
PlatformSystems == {"Windows", "Linux", "Darwin"}
Backends == {Qt5Agg, GTK3Agg, TkAgg, GTK4Agg}

\* window titles: matplotlib's default "Figure n", and another application's
DefaultTitle(n) == <<"Figure", n>>
Notepad == <<"Notepad", 0>>
NoTitle == <<"", 0>>
WindowTexts == {DefaultTitle(n) : n \in FigNums} \cup {Notepad}
\* titles the application gives a window itself
UserTitles == {DefaultTitle(1)}

Range(s) == {s[i] : i \in 1..Len(s)}

\* plt.get_fignums(): the open figure numbers, sorted
get_fignums == SelectSeq([i \in 1..MaxFigs |-> i], LAMBDA n : n \in Range(figs))

\* plt.gcf() when a figure is open
Active == IF figs = <<>> THEN None ELSE figs[Len(figs)]

Remove(s, n) == SelectSeq(s, LAMBDA x : x # n)

\* --------------------------------------------------- module-load dispatch

\* SelectVariant with a silent fallback: an unsupported OS or backend gets the Qt copyfig
SelectVariantFallback(os, be, pil) ==
  IF os = "windows" THEN [variant |-> "windows", raised |-> "none"]
  ELSE IF os = "linux" /\ be = GTK3Agg THEN
    IF pil THEN [variant |-> "gtk", raised |-> "none"]
    ELSE [variant |-> "none", raised |-> "ImportError"]
  ELSE [variant |-> "qt", raised |-> "none"]

\* the if/elif chain of the module body: the copyfig it defines, or what it raises
SelectVariant(os, be, pil) ==
  IF os = "windows" THEN [variant |-> "windows", raised |-> "none"]
  ELSE IF os = "linux" THEN
    IF Contains(be, Qt) THEN [variant |-> "qt", raised |-> "none"]
    ELSE IF be = GTK3Agg THEN
      IF pil THEN [variant |-> "gtk", raised |-> "none"]
      ELSE [variant |-> "none", raised |-> "ImportError"]
    ELSE [variant |-> "none", raised |-> "ValueError"]
  ELSE [variant |-> "none", raised |-> "ValueError"]

\* ------------------------------------------------- pyplot's figure registry

FigState == [figs |-> figs, title |-> title, listeners |-> listeners]

\* the original plt.figure(num): activate the open figure num, or create it
oldfig(gs, n) ==
  IF n \in Range(gs.figs)
  THEN [gs EXCEPT !.figs = Remove(@, n) \o <<n>>]
  ELSE [figs |-> Append(gs.figs, n),
        title |-> [gs.title EXCEPT ![n] = DefaultTitle(n)],
        listeners |-> [gs.listeners EXCEPT ![n] = 0]]

\* newfig that connects its handler only to a figure it finds already open
newfigSkipsNew(gs, n) ==
  LET g == oldfig(gs, n)
  IN IF n \in Range(gs.figs) THEN [g EXCEPT !.listeners[n] = @ + 1] ELSE g

\* the wrapper: oldfig, then mpl_connect('key_press_event', clipboard_handler)
newfig(gs, n) ==
  LET g == oldfig(gs, n)
  IN [g EXCEPT !.listeners[n] = @ + 1]

\* a call of plt.figure(n) under the current binding of plt.figure
plt_figure(gs, n, binding) ==
  IF binding = "newfig" THEN newfig(gs, n) ELSE oldfig(gs, n)

\* plt.close(n)
plt_close(gs, n) ==
  [figs |-> Remove(gs.figs, n),
   title |-> [gs.title EXCEPT ![n] = NoTitle],
   listeners |-> [gs.listeners EXCEPT ![n] = 0]]

\* plt.gcf(): the active figure, or a new figure 1 made by plt.figure()
plt_gcf(gs, binding) ==
  IF gs.figs = <<>>
  THEN [gs |-> plt_figure(gs, 1, binding), fig |-> 1]
  ELSE [gs |-> gs, fig |-> gs.figs[Len(gs.figs)]]

\* for i in plt.get_fignums(): if plt.figure(i)...title == text: fig = plt.figure(i); break
RECURSIVE Scan(_, _, _, _)
Scan(gs, nums, text, binding) ==
  IF nums = <<>> THEN [gs |-> gs, fig |-> None]
  ELSE LET i == Head(nums)
           g1 == plt_figure(gs, i, binding)
       IN IF g1.title[i] = text
          THEN [gs |-> plt_figure(g1, i, binding), fig |-> i]
          ELSE Scan(g1, Tail(nums), text, binding)

RECURSIVE SumTo(_, _)
SumTo(l, n) == IF n = 0 THEN 0 ELSE l[n] + SumTo(l, n - 1)

WithinBounds(gs) == SumTo(gs.listeners, MaxFigs) <= MaxConnects

\* ------------------------------------------------------ formats and bytes

format_map == [png |-> "PNG", svg |-> "image/svg+xml", jpg |-> "JFIF", jpeg |-> "JFIF"]

\* format arguments a caller passes ("None" = not passed), rcParams values
FormatArgs == {"None", "SVG", "bogus"}
RcFormats == {"jpg", "bogus"}

\* lines 81-86: default from rcParams, lower(), fall back to png
NormFormat(fmt, rc) ==
  LET f1 == IF fmt = "None" THEN rc ELSE fmt
      f2 == Lower(f1)
  IN IF f2 \in DOMAIN format_map THEN f2 ELSE "png"

\* what fig.savefig(buf, format=fmt) leaves in buf: the format's signature, then the picture
Signature(fmt) ==
  CASE fmt = "png" -> "\\x89PNG"
    [] fmt = "svg" -> "<svg"
    [] OTHER -> "\\xff\\xd8JFIF"
SaveBytes(f, fmt) == <<Signature(fmt), f>>

\* Image.open(buf).convert("RGB"): the picture the bytes encode
ImageOpen(bytes) == bytes[2]

\* im.save(output, "BMP"): 14-byte file header, then the DIB
BmpFileHeader == <<"B", "M", "sz", "sz", "sz", "sz", "r", "r", "r", "r", "off", "off", "off", "off">>
BmpEncode(im) == BmpFileHeader \o <<"BITMAPINFOHEADER", im>>

\* a slice that starts inside the file header (the 10-byte offset of bfOffBits)
StripHeaderShort(bmp) == SubSeq(bmp, 11, Len(bmp))

\* output.getvalue()[14:]
StripHeader(bmp) == SubSeq(bmp, BmpFileHeaderLen + 1, Len(bmp))

\* lines 107-121: the (format_id, data) pair handed to SetClipboardData
WinPayload(f, fmt, pil) ==
  LET buf == SaveBytes(f, fmt)
  IN IF fmt # "svg" /\ pil
     THEN [format_id |-> "CF_DIB", data |-> StripHeader(BmpEncode(ImageOpen(buf)))]
     ELSE [format_id |-> format_map[fmt], data |-> buf]

\* clipboard().setImage(QImage.fromData(buf.getvalue()))
QtPayload(f) == [format_id |-> "QImage", data |-> SaveBytes(f, "png")]

\* Pixbuf.new_from_bytes(im.tobytes(), RGB, True, 8, w, h, w * 4)
GtkPayload(f) == [format_id |-> "Pixbuf", data |-> <<"RGBA", ImageOpen(SaveBytes(f, "png"))>>]

\* clipboard content another application left, and the cleared clipboard
Previous == [format_id |-> "CF_TEXT", data |-> <<"text", 0>>]
Cleared == [format_id |-> "none", data |-> <<>>]
NotSaved == [fig |-> None, format |-> "none"]

\* ------------------------------------------------------------------- Init

Keys == {"ctrl+c", "c"}

Init ==
  /\ pillow \in BOOLEAN
  /\ ostype = "unset"
  /\ backend = <<>>
  /\ loaded = "unloaded"
  /\ variant = "none"
  /\ pltFigure = "oldfig"
  /\ figs = <<>>
  /\ title = [n \in FigNums |-> NoTitle]
  /\ listeners = [n \in FigNums |-> 0]
  /\ clipOpen = FALSE
  /\ clip = Previous
  /\ pc = "idle"
  /\ fig = None
  /\ requested = "None"
  /\ rcformat = "unread"
  /\ format = "none"
  /\ fig_window_text = NoTitle
  /\ saved = NotSaved
  /\ err = "none"
  /\ key = "none"
  /\ pending = 0

\* nothing of this module is running: no copyfig call, no event being dispatched
Quiet == pc = "idle" /\ pending = 0

SetFigState(gs) ==
  /\ figs' = gs.figs
  /\ title' = gs.title
  /\ listeners' = gs.listeners

\* --------------------------------------------------------- the module body

\* import addcopyfighandler: lines 44-269
Load ==
  /\ Quiet
  /\ loaded = "unloaded"
  /\ \E sys \in PlatformSystems, be \in Backends :
       LET os == Lower(sys)
           b == IF os = "linux" THEN be ELSE backend
           sel == SelectVariant(os, b, pillow)
       IN /\ ostype' = os
          /\ backend' = b
          /\ variant' = sel.variant
          /\ loaded' = IF sel.raised = "none" THEN "installed" ELSE sel.raised
          /\ pltFigure' = IF sel.raised = "none" THEN "newfig" ELSE pltFigure
  /\ UNCHANGED <<pillow, figVars, clipVars, callVars, evVars>>

\* ------------------------------------------------------- the application

\* the application calls plt.figure(n)
Figure(n) ==
  /\ Quiet
  /\ LET gs == plt_figure(FigState, n, pltFigure)
     IN WithinBounds(gs) /\ SetFigState(gs)
  /\ UNCHANGED <<envVars, clipVars, callVars, evVars>>

\* the application calls plt.close(n)
Close(n) ==
  /\ Quiet
  /\ n \in Range(figs)
  /\ SetFigState(plt_close(FigState, n))
  /\ UNCHANGED <<envVars, clipVars, callVars, evVars>>

\* fig.canvas.manager.set_window_title(t)
SetWindowTitle(n, t) ==
  /\ Quiet
  /\ n \in Range(figs)
  /\ title[n] # t
  /\ title' = [title EXCEPT ![n] = t]
  /\ UNCHANGED <<envVars, figs, listeners, clipVars, callVars, evVars>>

\* ---------------------------------------------------------------- copyfig

Raise(e) == pc' = "raised" /\ err' = e

\* fig is None: the focused-window query and the scan over the open figures.
\* windows lines 88-98 and Qt lines 166-176 raise AttributeError when no title
\* matches; GTK lines 214-233 take plt.gcf() instead. The query itself raises when
\* QApplication.activeWindow() is None (line 169) or xprop cannot be run (217-224).
Resolve(f, text, queryOK) ==
  IF f # None
  THEN [gs |-> FigState, fig |-> f, text |-> NoTitle, raised |-> "none"]
  ELSE IF ~queryOK
  THEN [gs |-> FigState, fig |-> None, text |-> NoTitle,
        raised |-> IF variant = "qt" THEN "AttributeError" ELSE "FileNotFoundError"]
  ELSE LET r == Scan(FigState, get_fignums, text, pltFigure)
       IN IF r.fig # None
          THEN [gs |-> r.gs, fig |-> r.fig, text |-> text, raised |-> "none"]
          ELSE IF variant = "gtk"
          THEN LET g == plt_gcf(r.gs, pltFigure)
               IN [gs |-> g.gs, fig |-> g.fig, text |-> text, raised |-> "none"]
          ELSE [gs |-> r.gs, fig |-> None, text |-> text, raised |-> "AttributeError"]

\* copyfig(f, fmt) up to the savefig call: on windows lines 81-86 set format,
\* reading plt.rcParams['savefig.format'] (rc) when no format was passed; then the
\* figure is resolved
Enter(f, fmt, rc, text, queryOK) ==
  /\ LET r == Resolve(f, text, queryOK)
     IN /\ WithinBounds(r.gs)
        /\ SetFigState(r.gs)
        /\ fig' = r.fig
        /\ fig_window_text' = r.text
        /\ IF r.raised = "none" THEN pc' = "save" /\ err' = "none"
                                ELSE Raise(r.raised)
  /\ requested' = fmt
  /\ rcformat' = rc
  /\ format' = IF variant = "windows" THEN NormFormat(fmt, rc) ELSE "none"
  /\ saved' = NotSaved

\* what a call reads of its environment: rcParams['savefig.format'] only on
\* windows when no format was passed (line 82); the focused window's title only
\* when no figure was passed, a query that can fail only on Qt and GTK
RcReads(fmt) ==
  IF variant = "windows" /\ fmt = "None" THEN RcFormats ELSE {"unread"}
FocusQueries(f) ==
  IF f # None THEN {[text |-> NoTitle, ok |-> TRUE]}
  ELSE {[text |-> t, ok |-> TRUE] : t \in WindowTexts}
       \cup (IF variant \in {"qt", "gtk"} THEN {[text |-> NoTitle, ok |-> FALSE]} ELSE {})

\* the application calls copyfig(f, format=fmt) itself, f being None or plt.gcf()
CallCopyfig(f, fmt) ==
  /\ Quiet
  /\ variant # "none"
  /\ f \in {None, Active}
  /\ \E rc \in RcReads(fmt), q \in FocusQueries(f) : Enter(f, fmt, rc, q.text, q.ok)
  /\ UNCHANGED <<envVars, clipVars, evVars>>

\* windows lines 104-121: fig.savefig(buf, format=format), then the payload
SaveWin(ok) ==
  /\ pc = "save"
  /\ variant = "windows"
  /\ saved' = [fig |-> fig, format |-> format]
  /\ IF ok THEN pc' = "open" /\ err' = err ELSE Raise("SaveError")
  /\ UNCHANGED <<envVars, figVars, clipVars, evVars,
                 fig, requested, rcformat, format, fig_window_text>>

\* Qt line 183, GTK line 240: fig.savefig(buf, format='png', *args, **kwargs);
\* a format the caller passed arrives in kwargs and the call itself is a TypeError
SaveLinux(ok) ==
  /\ pc = "save"
  /\ variant \in {"qt", "gtk"}
  /\ IF requested # "None"
     THEN /\ Raise("TypeError")
          /\ saved' = saved
     ELSE /\ saved' = [fig |-> fig, format |-> "png"]
          /\ IF ok THEN pc' = "put" /\ err' = err ELSE Raise("SaveError")
  /\ UNCHANGED <<envVars, figVars, clipVars, evVars,
                 fig, requested, rcformat, format, fig_window_text>>

\* line 123: win32clipboard.OpenClipboard()
OpenClipboard(ok) ==
  /\ pc = "open"
  /\ IF ok THEN pc' = "empty" /\ clipOpen' = TRUE /\ err' = err
           ELSE Raise("pywintypes.error") /\ clipOpen' = clipOpen
  /\ UNCHANGED <<envVars, figVars, clip, evVars,
                 fig, requested, rcformat, format, fig_window_text, saved>>

\* line 124: win32clipboard.EmptyClipboard()
EmptyClipboard(ok) ==
  /\ pc = "empty"
  /\ IF ok THEN pc' = "set" /\ clip' = Cleared /\ err' = err
           ELSE Raise("pywintypes.error") /\ clip' = clip
  /\ UNCHANGED <<envVars, figVars, clipOpen, evVars,
                 fig, requested, rcformat, format, fig_window_text, saved>>

\* line 125: win32clipboard.SetClipboardData(format_id, data)
SetClipboardData(ok) ==
  /\ pc = "set"
  /\ IF ok THEN pc' = "close" /\ clip' = WinPayload(fig, format, pillow) /\ err' = err
           ELSE Raise("pywintypes.error") /\ clip' = clip
  /\ UNCHANGED <<envVars, figVars, clipOpen, evVars,
                 fig, requested, rcformat, format, fig_window_text, saved>>

\* line 126: win32clipboard.CloseClipboard()
CloseClipboard ==
  /\ pc = "close"
  /\ clipOpen' = FALSE
  /\ pc' = "returned"
  /\ UNCHANGED <<envVars, figVars, clip, evVars,
                 fig, requested, rcformat, format, fig_window_text, saved, err>>

\* Qt line 184: clipboard().setImage(...); GTK lines 241-249: set_image, store
PutImage ==
  /\ pc = "put"
  /\ clip' = IF variant = "qt" THEN QtPayload(fig) ELSE GtkPayload(fig)
  /\ pc' = "returned"
  /\ UNCHANGED <<envVars, figVars, clipOpen, evVars,
                 fig, requested, rcformat, format, fig_window_text, saved, err>>

\* ------------------------------------------------- the key-press listener

\* a key_press_event on figure n: its canvas' callbacks are to be invoked
KeyPress(n, k) ==
  /\ Quiet
  /\ n \in Range(figs)
  /\ listeners[n] > 0
  /\ key' = k
  /\ pending' = listeners[n]
  /\ UNCHANGED <<envVars, figVars, clipVars, callVars>>

\* a handler without the test of event.key: copyfig() whatever the key
clipboard_handlerAnyKey ==
  /\ pc = "idle"
  /\ pending > 0
  /\ \E rc \in RcReads("None"), q \in FocusQueries(None) :
       Enter(None, "None", rc, q.text, q.ok)
  /\ UNCHANGED <<envVars, clipVars, evVars>>

\* clipboard_handler(event), lines 261-263: copyfig() on 'ctrl+c', else return
clipboard_handler ==
  /\ pc = "idle"
  /\ pending > 0
  /\ IF key = "ctrl+c"
     THEN /\ \E rc \in RcReads("None"), q \in FocusQueries(None) :
               Enter(None, "None", rc, q.text, q.ok)
          /\ UNCHANGED evVars
     ELSE /\ pending' = pending - 1
          /\ key' = IF pending' = 0 THEN "none" ELSE key
          /\ UNCHANGED <<callVars, figVars>>
  /\ UNCHANGED <<envVars, clipVars>>

\* a handler that catches the exception and runs the export again
ReturnRetrying(goOn) ==
  /\ pc \in {"returned", "raised"}
  /\ IF pc = "raised" /\ pending > 0
     THEN /\ \E rc \in RcReads("None"), q \in FocusQueries(None) :
               Enter(None, "None", rc, q.text, q.ok)
          /\ UNCHANGED evVars
     ELSE /\ pc' = "idle"
          /\ fig' = None
          /\ requested' = "None"
          /\ rcformat' = "unread"
          /\ format' = "none"
          /\ fig_window_text' = NoTitle
          /\ saved' = NotSaved
          /\ err' = "none"
          /\ pending' = IF pending = 0 THEN 0 ELSE pending - 1
          /\ key' = IF pending' = 0 THEN "none" ELSE key
          /\ UNCHANGED figVars
  /\ UNCHANGED <<envVars, clipVars>>

\* copyfig is over: it returns, or its exception leaves clipboard_handler for the
\* dispatcher, which goes on with the next callback or re-raises
Return(goOn) ==
  /\ pc \in {"returned", "raised"}
  /\ pc' = "idle"
  /\ fig' = None
  /\ requested' = "None"
  /\ rcformat' = "unread"
  /\ format' = "none"
  /\ fig_window_text' = NoTitle
  /\ saved' = NotSaved
  /\ err' = "none"
  /\ pending' = IF pending = 0 THEN 0
                ELSE IF pc = "raised" /\ ~goOn THEN 0
                ELSE pending - 1
  /\ key' = IF pending' = 0 THEN "none" ELSE key
  /\ UNCHANGED <<envVars, figVars, clipVars>>

Next ==
  \/ Load
  \/ \E n \in FigNums : Figure(n)
  \/ \E n \in FigNums : Close(n)
  \/ \E n \in FigNums, t \in UserTitles : SetWindowTitle(n, t)
  \/ \E f \in FigNums \cup {None}, fmt \in FormatArgs : CallCopyfig(f, fmt)
  \/ \E ok \in BOOLEAN : SaveWin(ok)
  \/ \E ok \in BOOLEAN : SaveLinux(ok)
  \/ \E ok \in BOOLEAN : OpenClipboard(ok)
  \/ \E ok \in BOOLEAN : EmptyClipboard(ok)
  \/ \E ok \in BOOLEAN : SetClipboardData(ok)
  \/ CloseClipboard
  \/ PutImage
  \/ \E n \in FigNums, k \in Keys : KeyPress(n, k)
  \/ clipboard_handler
  \/ \E goOn \in BOOLEAN : Return(goOn)

Spec == Init /\ [][Next]_vars

\* ------------------------------------------------------------- properties

\* a copyfig call is running or has just ended
InCall == pc # "idle"
Ended == pc \in {"returned", "raised"}
\* the call was made without a figure and the focused-window scan ran
Scanned == InCall /\ fig_window_text # NoTitle
\* the format the call asks for: the argument, else the rcParams default it read
EffectiveRequest == IF requested = "None" THEN rcformat ELSE requested
Supported == {"png", "svg", "jpg", "jpeg"}

\* C1: with the hook installed, a figure that plt.figure newly creates has exactly
\* one clipboard_handler connected when the call returns.
C1_NewFigureHasOneListener ==
  [][\A n \in FigNums :
       (pltFigure = "newfig" /\ n \notin Range(figs) /\ n \in Range(figs'))
         => listeners'[n] = 1]_vars

C1_Witness ==
  /\ loaded = "installed"
  /\ Quiet
  /\ \E n \in Range(figs) : listeners[n] = 1

\* C2 (as claimed): in every variant, a copyfig call without a figure whose scan
\* finds no open figure with the focused window's title ends in the 'no figure
\* found' AttributeError, with no figure saved.
C2_NoMatchRaises ==
  (Scanned /\ \A n \in Range(figs) : title[n] # fig_window_text)
    => (pc = "raised" /\ err = "AttributeError" /\ saved = NotSaved)

\* C3 (as claimed): the figure a copyfig call without a figure goes on to export
\* is the lowest-numbered open figure whose title equals the focused window's
\* title; a figure with another title is never chosen.
C3_FirstTitleMatchChosen ==
  (Scanned /\ fig # None)
    => /\ title[fig] = fig_window_text
       /\ \A m \in Range(figs) : m < fig => title[m] # fig_window_text

\* C4 (as claimed): on windows a call whose format is outside {png, svg, jpg,
\* jpeg} raises and gets neither to the save routine nor to the clipboard.
C4_UnsupportedFormatRaises ==
  (variant = "windows" /\ InCall /\ Lower(EffectiveRequest) \notin Supported)
    => (pc = "raised" /\ saved = NotSaved /\ ~clipOpen)

\* C5 (as claimed): when a copyfig call ends, by returning or by raising, the
\* clipboard it opened has been closed.
C5_ClipboardClosedAtEnd == (Ended \/ Quiet) => ~clipOpen

\* C6 (as claimed): no copyfig call ends with the clipboard emptied and no
\* payload written in place of what was there.
C6_NoClearedClipboardAtEnd == (Ended \/ Quiet) => clip # Cleared

\* C7: an export attempt a key press started ends exactly once: from the state in
\* which copyfig has returned or raised the listener goes back to idle, the one
\* exception that is propagating is handed over and the export is not run again;
\* and an idle listener invoked for 'ctrl+c' starts an export attempt.
C7_ListenerBackToIdle ==
  [][/\ (pc = "raised") = (err # "none")
     /\ (Ended /\ pending > 0)
          => (pc' = "idle" /\ err' = "none" /\ pending' < pending
              /\ figs' = figs /\ listeners' = listeners /\ clip' = clip)
     /\ (pc = "idle" /\ pending > 0 /\ key = "ctrl+c")
          => (pc' \in {"save", "raised"} /\ pending' = pending)]_vars

C7_Witness == pc = "raised" /\ pending > 0 /\ key = "ctrl+c"

\* C8: on windows with Pillow, a call that has written the clipboard wrote, for a
\* raster format, CF_DIB data that is the BMP encoding of the saved image without
\* its 14-byte file header, and for svg the save routine's bytes as image/svg+xml.
C8_PillowPayload ==
  (variant = "windows" /\ pillow /\ pc \in {"close", "returned"})
    => IF Lower(EffectiveRequest) # "svg"
       THEN /\ clip.format_id = "CF_DIB"
            /\ Len(BmpFileHeader) = 14
            /\ BmpFileHeader \o clip.data
                 = BmpEncode(ImageOpen(SaveBytes(saved.fig, saved.format)))
       ELSE /\ clip.format_id = "image/svg+xml"
            /\ clip.data = SaveBytes(saved.fig, "svg")

C8_Witness ==
  /\ variant = "windows" /\ pillow /\ pc = "returned"
  /\ Lower(EffectiveRequest) = "jpg"
  /\ clip.format_id = "CF_DIB"

\* C9 (as claimed): on Qt and GTK the save routine is only ever invoked with png,
\* and a format the caller passes never makes the call fail.
C9_LinuxAlwaysPng ==
  (variant \in {"qt", "gtk"} /\ InCall)
    => /\ saved = NotSaved \/ saved.format = "png"
       /\ requested # "None" => ~(pc = "raised" /\ err = "TypeError")

\* a backend name with 'Qt' in it; the OS/backend pairs no copyfig exists for
IsQtBackend(be) == Contains(be, <<"Q", "t">>)
UnsupportedPlatform ==
  \/ ostype \notin {"windows", "linux"}
  \/ ostype = "linux" /\ ~IsQtBackend(backend) /\ backend # GTK3Agg

\* C10: once the module body has run on an OS other than windows and linux, or on
\* linux with a backend that is neither a Qt one nor GTK3Agg, it has raised
\* ValueError, plt.figure is still the original and no figure has a listener.
C10_UnsupportedNeverInstalls ==
  (loaded # "unloaded" /\ UnsupportedPlatform)
    => /\ loaded = "ValueError"
       /\ pltFigure = "oldfig"
       /\ variant = "none"
       /\ \A n \in FigNums : listeners[n] = 0
       /\ Quiet

C10_Witness ==
  /\ loaded = "ValueError"
  /\ ostype = "linux"
  /\ figs # <<>>

\* C11: while a key_press_event whose key is not 'ctrl+c' is dispatched, from the
\* key press to the return of the last callback, no copyfig call is started (no
\* focused-window query, no savefig, no clipboard call) and the open figures, their
\* titles and listeners and the clipboard stay as they were.
OtherKey(k) == k \notin {"ctrl+c", "none"}
C11_OtherKeyNoExport ==
  [][(OtherKey(key) \/ OtherKey(key'))
       => /\ pc = "idle" /\ pc' = "idle"
          /\ UNCHANGED <<figVars, clipVars, callVars>>
          /\ saved = NotSaved /\ fig_window_text = NoTitle]_vars

\* the first of two callbacks of a figure has returned from a 'c' key press
C11_Witness ==
  /\ key = "c" /\ pending = 1
  /\ figs # <<>>
  /\ \A n \in Range(figs) : listeners[n] = 2

\* C12 (as claimed): listeners do not accumulate: whatever figures were made,
\* re-activated through plt.figure(num) or exported, no figure's canvas carries more
\* than one clipboard_handler, so a key press has at most one callback to invoke.
C12_OneListenerPerFigure ==
  /\ \A n \in FigNums : listeners[n] <= 1
  /\ pending <= 1

\* C13 (as claimed): a copyfig call without a figure leaves pyplot's figure state
\* as it found it: from the entry of the call, through the focused-window scan, to
\* its end the set of open figures and the current figure (plt.gcf()) do not
\* change; and when no title matches on GTK, the figure taken for the export is
\* the one that was current when the call was entered.
C13_ExportKeepsFigureState ==
  [][/\ (pc = "idle" /\ pc' # "idle" /\ fig_window_text' # NoTitle)
          => /\ Range(figs') = Range(figs)
             /\ Active' = Active
             /\ (variant = "gtk" /\ pc' = "save"
                   /\ \A n \in Range(figs) : title[n] # fig_window_text')
                  => fig' = Active
     /\ InCall => (Range(figs') = Range(figs) /\ Active' = Active)]_vars

====
